---- MODULE Spec2Model ----
(***************************************************************************)
(* Model of the resumable crawl engine of golfapi-scapper:                 *)
(*   src/src/main.py      process entry, signal handler, exit status       *)
(*   src/src/scraper.py   GolfCourseScraper: fetch_course, rate-limit      *)
(*                        gate, the scrape() loop                          *)
(*   src/src/database.py  the SQLite tables the engine reads and writes    *)
(*   src/src/config.py    the configuration values                         *)
(*                                                                         *)
(* One process runs at a time.  The persisted tables survive the process;  *)
(* the in-memory variables are reset when it stops.  Time is counted in    *)
(* ticks of half a second, the resolution REQUEST_DELAY_SECONDS = 1.5      *)
(* needs.                                                                  *)
(*                                                                         *)
(*   Spec          the engine against a remote that may answer anything    *)
(*   LiveSpec      Spec with the fairness the liveness properties need     *)
(*   ScenarioSpec  the engine against scripted remotes, default quota      *)
(*   LedgerSpec    the api_calls functions alone, around window boundaries *)
(***************************************************************************)
EXTENDS Integers, Sequences, FiniteSets, TLC

\* ------------------------------------------------------------- bounds
\* Course IDs the remote API is asked for.
MaxId == 4
\* Total number of session.get calls in one behaviour.
MaxGets == 3
\* MAX_CALLS_PER_DAY and CONSECUTIVE_404_LIMIT are read from the environment
\* (config.py:20, config.py:24); the model runs a small configuration.
MAX_CALLS_PER_DAY == 2
CONSECUTIVE_404_LIMIT == 2

\* ------------------------------------------------------ configuration
RATE_LIMIT_WINDOW_HOURS == 24
RETRY_DELAY_SECONDS == 300
RETRY_MAX_ATTEMPTS == 3
RATE_LIMIT_SLEEP_SECONDS == 3600
\* REQUEST_DELAY_SECONDS = 1.5, in ticks
REQUEST_DELAY_TICKS == 3
\* MAX_CALLS_PER_DAY when the environment does not set it
DEFAULT_MAX_CALLS_PER_DAY == 295

\* n seconds, in ticks
Seconds(n) == 2 * n
\* timedelta(hours = h), in ticks
timedelta_hours(h) == Seconds(3600 * h)

Ids == 1..MaxId

\* The value of a Python None, of a missing row, and of "no exit status yet".
None == "None"
NoRow == [status_code |-> 0, success |-> FALSE]
\* A Python None where the model holds an integer (a timestamp, an exit status).
NoneInt == 0 - 1
Running == NoneInt

\* HTTP status codes of the branch "else" of fetch_course: 403 and a 5xx.
OtherStatuses == {403, 500}
\* What session.get produced when it raised RequestException.
RequestException == NoneInt
\* The JSON bodies of a 200 response: a body save_course stores, a truthy body
\* save_course rejects (its transaction rolls back), and a falsy body ({}).
Payloads == {"ok", "bad", "empty"}

VARIABLES
    \* process
    pc,                 \* position of the process; "stopped" when none runs
    exit_code,          \* status of the last process exit (Running while one runs)
    shutdown_requested, \* main.py global flag
    \* GolfCourseScraper.scrape locals
    current_id,
    consecutive_404s,
    course_data,
    \* GolfCourseScraper.fetch_course locals
    attempt,
    responses,          \* what each session.get of this fetch_course produced
    \* persisted tables
    scrape_metadata,
    api_calls,          \* stored timestamps, in insertion order
    scrape_attempts,    \* course_id -> row, NoRow where there is none
    courses,            \* ids with a row in the courses table
    locations,          \* course ids with a row in the locations table
    tees,               \* course_id of each tees row, in rowid order
    holes,              \* tee_id of each holes row, in rowid order
    \* environment
    now,                \* wall clock (datetime.now()), in ticks
    session_gets,       \* number of session.get calls issued so far
    fetched_ids,        \* the IDs a session.get was issued for so far
    not_found_run,      \* number of most recent fetch_course calls that ended
                        \* in an HTTP 404 response, one after the other
    script,             \* what the remote answers to each session.get in
                        \* turn; <<>> when it may answer anything
    max_calls_per_day   \* Config.MAX_CALLS_PER_DAY, read from the environment

vars == <<pc, exit_code, shutdown_requested, current_id, consecutive_404s,
          course_data, attempt, responses, scrape_metadata, api_calls,
          scrape_attempts, courses, locations, tees, holes, now,
          session_gets, fetched_ids, not_found_run, script,
          max_calls_per_day>>

memory == <<current_id, consecutive_404s, course_data, attempt, responses>>
tables == <<scrape_metadata, api_calls, scrape_attempts, courses, locations,
            tees, holes>>
\* What the process is given and does not change.
environment == <<script, max_calls_per_day>>

\* ------------------------------------------------------------ database

\* The row _create_tables inserts into scrape_metadata.
InitialMetadata ==
    [last_scraped_id |-> 0, consecutive_404s |-> 0,
     total_courses_scraped |-> 0, scraping_complete |-> FALSE]

\* A read that finds no row: dict(row) if row else {}, every .get a default.
get_scrape_metadata_no_row ==
    [last_scraped_id |-> 0, consecutive_404s |-> 0,
     total_courses_scraped |-> 0, scraping_complete |-> FALSE]

\* SELECT * FROM scrape_metadata WHERE id = 1
get_scrape_metadata == scrape_metadata

\* The adapter sqlite3 applies to a datetime parameter: the text
\* isoformat(" "), "YYYY-MM-DD HH:MM:SS" followed by ".ffffff" unless the
\* microsecond is zero.  The model keeps the fixed-width part as the number of
\* whole seconds and the fraction as its digits.
adapt_datetime(t) ==
    [seconds |-> t \div 2,
     fraction |-> IF t % 2 = 0 THEN <<>> ELSE <<5, 0, 0, 0, 0, 0>>]

\* datetime.fromisoformat, the inverse reading of that text.
fromisoformat(text) ==
    2 * text.seconds + (IF text.fraction = <<>> THEN 0 ELSE 1)

\* memcmp order of two character strings: the first differing character
\* decides, a proper prefix is smaller.
memcmp_less(a, b) ==
    LET n == IF Len(a) < Len(b) THEN Len(a) ELSE Len(b)
        differ == {i \in 1..n : a[i] # b[i]}
    IN  IF differ = {}
        THEN Len(a) < Len(b)
        ELSE LET i == CHOOSE k \in differ : \A j \in differ : k <= j
             IN  a[i] < b[i]

\* SQLite's comparison of two stored timestamps (TEXT, BINARY collation).
text_less(a, b) ==
    \/ a.seconds < b.seconds
    \/ a.seconds = b.seconds /\ memcmp_less(a.fraction, b.fraction)

\* window_start = datetime.now() - timedelta(hours = RATE_LIMIT_WINDOW_HOURS),
\* as the query parameter
window_start(t) == adapt_datetime(t - timedelta_hours(RATE_LIMIT_WINDOW_HOURS))

\* The count with the comparison written >= for >.
get_api_calls_in_window_inclusive(calls, t) ==
    Cardinality({i \in 1..Len(calls) : ~text_less(calls[i], window_start(t))})

\* SELECT COUNT(*) FROM api_calls WHERE timestamp > now - window
get_api_calls_in_window(calls, t) ==
    Cardinality({i \in 1..Len(calls) : text_less(window_start(t), calls[i])})

\* A purge that compares with the current time instead of the window start.
cleanup_old_api_calls_without_window(calls, t) ==
    LET Kept(ts) == text_less(adapt_datetime(t), ts)
    IN  SelectSeq(calls, Kept)

\* DELETE FROM api_calls WHERE timestamp <= now - window
cleanup_old_api_calls(calls, t) ==
    LET Kept(ts) == text_less(window_start(t), ts)
    IN  SelectSeq(calls, Kept)

\* SELECT MIN(timestamp) FROM api_calls WHERE timestamp > now - window
get_oldest_api_call_in_window(calls, t) ==
    LET inw == {calls[i] : i \in {j \in 1..Len(calls) :
                    text_less(window_start(t), calls[j])}}
    IN  IF inw = {} THEN NoneInt
        ELSE fromisoformat(CHOOSE m \in inw :
                                \A o \in inw : m = o \/ text_less(m, o))

\* INSERT INTO api_calls (timestamp) VALUES (now)
record_api_call(calls, t) == Append(calls, adapt_datetime(t))

\* A lookup that never finds the row.
is_course_already_attempted_never(course_id) == FALSE

\* SELECT 1 FROM scrape_attempts WHERE course_id = ?
is_course_already_attempted(course_id) ==
    course_id \in Ids /\ scrape_attempts[course_id] # NoRow

\* INSERT OR REPLACE INTO scrape_attempts
record_scrape_attempt(course_id, status_code, success) ==
    [scrape_attempts EXCEPT
        ![course_id] = [status_code |-> status_code, success |-> success]]

\* ------------------------------------------------------------- limiter

check_rate_limit(calls, t) ==
    get_api_calls_in_window(calls, t) < max_calls_per_day

\* The time at which wait_for_rate_limit_window returns when it is entered at
\* t and reads datetime.now() lag ticks after its query of the oldest call.
wait_for_rate_limit_window(calls, t, lag) ==
    LET oldest_call == get_oldest_api_call_in_window(calls, t)
        now_read == t + lag
    IN  IF oldest_call # NoneInt
        THEN LET window_reset_time ==
                     oldest_call + timedelta_hours(RATE_LIMIT_WINDOW_HOURS)
             IN  IF window_reset_time > now_read
                 THEN now_read + (window_reset_time - now_read) + Seconds(1)
                 ELSE now_read
        ELSE t + Seconds(60)

\* ------------------------------------------------------------- process

Init ==
    /\ pc = "stopped"
    /\ exit_code = Running
    /\ shutdown_requested = FALSE
    /\ current_id = 0
    /\ consecutive_404s = 0
    /\ course_data = None
    /\ attempt = 0
    /\ responses = <<>>
    /\ scrape_metadata = InitialMetadata
    /\ api_calls = <<>>
    /\ scrape_attempts = [i \in Ids |-> NoRow]
    /\ courses = {}
    /\ locations = {}
    /\ tees = <<>>
    /\ holes = <<>>
    /\ now = 0
    /\ session_gets = 0
    /\ fetched_ids = {}
    /\ not_found_run = 0
    /\ script = <<>>
    /\ max_calls_per_day = MAX_CALLS_PER_DAY

\* The process ends with the given status; its memory is gone.
Exit(status) ==
    /\ pc' = "stopped"
    /\ exit_code' = status
    /\ shutdown_requested' = FALSE
    /\ current_id' = 0
    /\ consecutive_404s' = 0
    /\ course_data' = None
    /\ attempt' = 0
    /\ responses' = <<>>

\* main(): logging, Config.validate, signal handlers, Database().
main ==
    /\ pc = "stopped"
    /\ pc' = "main"
    /\ exit_code' = Running
    /\ UNCHANGED <<shutdown_requested, memory, tables, now, session_gets,
                   fetched_ids, not_found_run>>
    /\ UNCHANGED environment

\* main(): the completion check before the scraper is built.
main_check ==
    /\ pc = "main"
    /\ IF get_scrape_metadata.scraping_complete
       THEN Exit(0)
       ELSE /\ pc' = "scrape"
            /\ UNCHANGED <<exit_code, shutdown_requested, memory>>
    /\ UNCHANGED <<tables, now, session_gets, fetched_ids, not_found_run>>
    /\ UNCHANGED environment

\* scrape(): read the metadata, return if complete, else resume.
scrape ==
    /\ pc = "scrape"
    /\ LET metadata == get_scrape_metadata
       IN  IF metadata.scraping_complete
           THEN Exit(0)
           ELSE /\ current_id' = metadata.last_scraped_id + 1
                /\ consecutive_404s' = metadata.consecutive_404s
                /\ pc' = "while"
                /\ UNCHANGED <<exit_code, shutdown_requested, course_data,
                               attempt, responses>>
    /\ UNCHANGED <<tables, now, session_gets, fetched_ids, not_found_run>>
    /\ UNCHANGED environment

\* signal_handler(): SIGTERM or SIGINT delivered to the running process.
signal_handler ==
    /\ pc # "stopped"
    /\ ~shutdown_requested
    /\ shutdown_requested' = TRUE
    /\ UNCHANGED <<pc, exit_code, memory, tables, now, session_gets,
                   fetched_ids, not_found_run>>
    /\ UNCHANGED environment

\* The process is killed (SIGKILL, power loss) wherever it stands.
kill ==
    /\ pc # "stopped"
    /\ Exit(137)
    /\ UNCHANGED <<tables, now, session_gets, fetched_ids, not_found_run>>
    /\ UNCHANGED environment

\* ---------------------------------------------------------- scrape loop

\* The loop test written with <= for <.
loop_continues_off_by_one(n) == n <= CONSECUTIVE_404_LIMIT

\* while consecutive_404s < Config.CONSECUTIVE_404_LIMIT
loop_continues(n) == n < CONSECUTIVE_404_LIMIT

\* A skip that also moves the persisted cursor to the skipped ID.
skip_attempted_moves_cursor ==
    /\ pc = "while"
    /\ loop_continues(consecutive_404s)
    /\ is_course_already_attempted(current_id)
    /\ current_id' = current_id + 1
    /\ scrape_metadata' = [scrape_metadata EXCEPT
            !.last_scraped_id = current_id]
    /\ UNCHANGED <<pc, exit_code, shutdown_requested, consecutive_404s,
                   course_data, attempt, responses, api_calls, scrape_attempts,
                   courses, locations, tees, holes, now, session_gets,
                   fetched_ids, not_found_run>>
    /\ UNCHANGED environment

\* Loop body, "Skip if already attempted".
skip_attempted ==
    /\ pc = "while"
    /\ loop_continues(consecutive_404s)
    /\ is_course_already_attempted(current_id)
    /\ current_id' = current_id + 1
    /\ UNCHANGED <<pc, exit_code, shutdown_requested, consecutive_404s,
                   course_data, attempt, responses, tables, now, session_gets,
                   fetched_ids, not_found_run>>
    /\ UNCHANGED environment

\* Loop body, "Check rate limit": the gate before fetch_course is called.
rate_limit_gate ==
    /\ pc = "while"
    /\ loop_continues(consecutive_404s)
    /\ ~is_course_already_attempted(current_id)
    /\ current_id \in Ids
    /\ IF check_rate_limit(api_calls, now)
       THEN UNCHANGED <<now, api_calls>>
       ELSE /\ now' = wait_for_rate_limit_window(api_calls, now, 0)
            /\ api_calls' = cleanup_old_api_calls(api_calls, now')
    /\ pc' = "fetch"
    /\ attempt' = 1
    /\ responses' = <<>>
    /\ UNCHANGED <<exit_code, shutdown_requested, current_id, consecutive_404s,
                   course_data, scrape_metadata, scrape_attempts, courses,
                   locations, tees, holes, session_gets, fetched_ids,
                   not_found_run>>
    /\ UNCHANGED environment

\* The loop ends: "Scraping complete", the flag is written, main() returns.
scrape_complete ==
    /\ pc = "while"
    /\ ~loop_continues(consecutive_404s)
    /\ scrape_metadata' = [scrape_metadata EXCEPT !.scraping_complete = TRUE]
    /\ Exit(0)
    /\ UNCHANGED <<api_calls, scrape_attempts, courses, locations, tees, holes,
                   now, session_gets, fetched_ids, not_found_run>>
    /\ UNCHANGED environment

\* ---------------------------------------------------------- fetch_course

\* One pass of "for attempt in range(1, RETRY_MAX_ATTEMPTS + 1)" issues one
\* session.get.
CanGet ==
    /\ pc = "fetch"
    /\ attempt \in 1..RETRY_MAX_ATTEMPTS
    /\ session_gets < (IF script = <<>> THEN MaxGets ELSE Len(script))

\* The remote answers this session.get with the given status and body.
Answers(status, body) ==
    IF script = <<>>
    THEN TRUE
    ELSE script[session_gets + 1] = [status |-> status, body |-> body]

Got(r) ==
    /\ session_gets' = session_gets + 1
    /\ fetched_ids' = fetched_ids \cup {current_id}
    /\ responses' = Append(responses, r)

\* fetch_course returns value v to scrape().
Return(v) ==
    /\ pc' = "fetched"
    /\ course_data' = v
    /\ attempt' = 0

\* A retry loop that raises once the attempts are used up.
NextAttempt_raises ==
    IF attempt < RETRY_MAX_ATTEMPTS
    THEN /\ attempt' = attempt + 1
         /\ UNCHANGED <<pc, course_data>>
    ELSE /\ pc' = "raised"
         /\ UNCHANGED <<course_data, attempt>>

\* "continue" and the fall through of the except clause: the next pass of the
\* for loop, or the "return None" after it.
NextAttempt ==
    IF attempt < RETRY_MAX_ATTEMPTS
    THEN /\ attempt' = attempt + 1
         /\ UNCHANGED <<pc, course_data>>
    ELSE Return(None)

\* status 200: return response.json()
fetch_200 ==
    /\ CanGet
    /\ Got(200)
    /\ api_calls' = record_api_call(api_calls, now)
    /\ \E body \in Payloads : Answers(200, body) /\ Return(body)
    /\ not_found_run' = 0
    /\ UNCHANGED <<exit_code, shutdown_requested, current_id, consecutive_404s,
                   scrape_metadata, scrape_attempts, courses, locations, tees,
                   holes, now>>
    /\ UNCHANGED environment

\* status 404: return None
fetch_404 ==
    /\ CanGet
    /\ Answers(404, None)
    /\ Got(404)
    /\ api_calls' = record_api_call(api_calls, now)
    /\ Return(None)
    /\ not_found_run' = not_found_run + 1
    /\ UNCHANGED <<exit_code, shutdown_requested, current_id, consecutive_404s,
                   scrape_metadata, scrape_attempts, courses, locations, tees,
                   holes, now>>
    /\ UNCHANGED environment

\* status 401 handled with the failed attempt written to scrape_attempts
\* before the error is raised.
fetch_401_recorded ==
    /\ CanGet
    /\ Answers(401, None)
    /\ Got(401)
    /\ api_calls' = record_api_call(api_calls, now)
    /\ scrape_attempts' = record_scrape_attempt(current_id, 401, FALSE)
    /\ pc' = "raised"
    /\ UNCHANGED <<exit_code, shutdown_requested, current_id, consecutive_404s,
                   course_data, attempt, scrape_metadata, courses, locations,
                   tees, holes, now, not_found_run>>
    /\ UNCHANGED environment

\* status 401: raise ValueError("Invalid API key")
fetch_401 ==
    /\ CanGet
    /\ Answers(401, None)
    /\ Got(401)
    /\ api_calls' = record_api_call(api_calls, now)
    /\ pc' = "raised"
    /\ UNCHANGED <<exit_code, shutdown_requested, current_id, consecutive_404s,
                   course_data, attempt, scrape_metadata, scrape_attempts,
                   courses, locations, tees, holes, now, not_found_run>>
    /\ UNCHANGED environment

\* status 429 handled as a retry that does not use up an attempt.
fetch_429_free_retry ==
    /\ CanGet
    /\ Answers(429, None)
    /\ Got(429)
    /\ api_calls' = record_api_call(api_calls, now)
    /\ now' = now + Seconds(RATE_LIMIT_SLEEP_SECONDS)
    /\ UNCHANGED <<pc, exit_code, shutdown_requested, current_id,
                   consecutive_404s, course_data, attempt, scrape_metadata,
                   scrape_attempts, courses, locations, tees, holes,
                   not_found_run>>
    /\ UNCHANGED environment

\* status 429 handled as the end of the fetch: return None.
fetch_429_gives_up ==
    /\ CanGet
    /\ Answers(429, None)
    /\ Got(429)
    /\ api_calls' = record_api_call(api_calls, now)
    /\ Return(None)
    /\ not_found_run' = 0
    /\ UNCHANGED <<exit_code, shutdown_requested, current_id, consecutive_404s,
                   scrape_metadata, scrape_attempts, courses, locations, tees,
                   holes, now>>
    /\ UNCHANGED environment

\* status 429: sleep RATE_LIMIT_SLEEP_SECONDS, continue
fetch_429 ==
    /\ CanGet
    /\ Answers(429, None)
    /\ Got(429)
    /\ api_calls' = record_api_call(api_calls, now)
    /\ now' = now + Seconds(RATE_LIMIT_SLEEP_SECONDS)
    /\ NextAttempt
    /\ not_found_run' = IF attempt < RETRY_MAX_ATTEMPTS THEN not_found_run ELSE 0
    /\ UNCHANGED <<exit_code, shutdown_requested, current_id, consecutive_404s,
                   scrape_metadata, scrape_attempts, courses, locations, tees,
                   holes>>
    /\ UNCHANGED environment

\* The sleep before the retry that follows a failed attempt; none after the
\* last attempt.
backoff(t) ==
    IF attempt < RETRY_MAX_ATTEMPTS
    THEN t + Seconds(RETRY_DELAY_SECONDS * attempt)
    ELSE t

\* any other status: back off and continue, or return None when out of attempts
fetch_other ==
    /\ CanGet
    /\ \E status \in OtherStatuses : Answers(status, None) /\ Got(status)
    /\ api_calls' = record_api_call(api_calls, now)
    /\ now' = backoff(now)
    /\ NextAttempt
    /\ not_found_run' = IF attempt < RETRY_MAX_ATTEMPTS THEN not_found_run ELSE 0
    /\ UNCHANGED <<exit_code, shutdown_requested, current_id, consecutive_404s,
                   scrape_metadata, scrape_attempts, courses, locations, tees,
                   holes>>
    /\ UNCHANGED environment

\* session.get raises RequestException: record_api_call is not reached.
fetch_exception ==
    /\ CanGet
    /\ Answers(RequestException, None)
    /\ Got(RequestException)
    /\ now' = backoff(now)
    /\ NextAttempt
    /\ not_found_run' = IF attempt < RETRY_MAX_ATTEMPTS THEN not_found_run ELSE 0
    /\ UNCHANGED <<exit_code, shutdown_requested, current_id, consecutive_404s,
                   scrape_metadata, api_calls, scrape_attempts, courses,
                   locations, tees, holes>>
    /\ UNCHANGED environment

\* main(): "except Exception", sys.exit(1), the finally clause closes the db.
main_except ==
    /\ pc = "raised"
    /\ Exit(1)
    /\ UNCHANGED <<tables, now, session_gets, fetched_ids, not_found_run>>
    /\ UNCHANGED environment

\* ------------------------------------------------- scrape loop, outcome

\* "if course_data": a truthy payload
truthy(v) == v \in {"ok", "bad"}

\* The rows save_course writes, read and written as one value.
Store ==
    [courses |-> courses, locations |-> locations, tees |-> tees,
     holes |-> holes,
     total_courses_scraped |-> scrape_metadata.total_courses_scraped]

\* The statements of save_course in program order: insert the course, its
\* location, a tee, the hole of that tee, increment the counter.
SaveStatements == 5

\* The store after the first n statements of save_course for course_id.
save_course_statements(db, course_id, n) ==
    LET d1 == IF n >= 1 THEN [db EXCEPT !.courses = @ \cup {course_id}] ELSE db
        d2 == IF n >= 2 THEN [d1 EXCEPT !.locations = @ \cup {course_id}] ELSE d1
        d3 == IF n >= 3 THEN [d2 EXCEPT !.tees = Append(@, course_id)] ELSE d2
        d4 == IF n >= 4 THEN [d3 EXCEPT !.holes = Append(@, Len(d3.tees))] ELSE d3
    IN  IF n >= 5
        THEN [d4 EXCEPT !.total_courses_scraped = @ + 1]
        ELSE d4

\* A transaction that commits what was written before the error.
transaction_no_rollback(before, after, raised) == after

\* with self.transaction(): commit, or rollback when the block raised.
transaction(before, after, raised) == IF raised THEN before ELSE after

\* The store is replaced by db.
Stored(db) ==
    /\ courses' = db.courses
    /\ locations' = db.locations
    /\ tees' = db.tees
    /\ holes' = db.holes
    /\ scrape_metadata' = [scrape_metadata EXCEPT
            !.total_courses_scraped = db.total_courses_scraped]

\* save_course succeeds: the rows are written and the counter incremented in
\* one transaction.
save_course ==
    /\ pc = "fetched"
    /\ course_data = "ok"
    /\ Stored(transaction(Store,
            save_course_statements(Store, current_id, SaveStatements), FALSE))
    /\ pc' = "saved"
    /\ UNCHANGED <<exit_code, shutdown_requested, memory, api_calls,
                   scrape_attempts, now, session_gets, fetched_ids,
                   not_found_run>>
    /\ UNCHANGED environment

\* save_course raises, before its first statement (no course id) or after
\* some of them: transaction() rolls back and re-raises.
save_course_raises ==
    /\ pc = "fetched"
    /\ course_data = "bad"
    /\ \E n \in 0..(SaveStatements - 1) :
            Stored(transaction(Store,
                save_course_statements(Store, current_id, n), TRUE))
    /\ pc' = "save_failed"
    /\ UNCHANGED <<exit_code, shutdown_requested, memory, api_calls,
                   scrape_attempts, now, session_gets, fetched_ids,
                   not_found_run>>
    /\ UNCHANGED environment

\* record_scrape_attempt(current_id, 200, True)
record_saved ==
    /\ pc = "saved"
    /\ scrape_attempts' = record_scrape_attempt(current_id, 200, TRUE)
    /\ pc' = "found"
    /\ UNCHANGED <<exit_code, shutdown_requested, memory, scrape_metadata,
                   api_calls, courses, locations, tees, holes, now,
                   session_gets, fetched_ids, not_found_run>>
    /\ UNCHANGED environment

\* An except clause that lets the save_course error propagate.
record_save_failed_reraise ==
    /\ pc = "save_failed"
    /\ pc' = "raised"
    /\ UNCHANGED <<exit_code, shutdown_requested, memory, tables, now,
                   session_gets, fetched_ids, not_found_run>>
    /\ UNCHANGED environment

\* except Exception: record_scrape_attempt(current_id, 200, False)
record_save_failed ==
    /\ pc = "save_failed"
    /\ scrape_attempts' = record_scrape_attempt(current_id, 200, FALSE)
    /\ pc' = "found"
    /\ UNCHANGED <<exit_code, shutdown_requested, memory, scrape_metadata,
                   api_calls, courses, locations, tees, holes, now,
                   session_gets, fetched_ids, not_found_run>>
    /\ UNCHANGED environment

\* update_scrape_metadata called with the two values exchanged.
update_found_swapped ==
    /\ pc = "found"
    /\ consecutive_404s' = 0
    /\ scrape_metadata' = [scrape_metadata EXCEPT
            !.last_scraped_id = 0, !.consecutive_404s = current_id]
    /\ pc' = "next"
    /\ UNCHANGED <<exit_code, shutdown_requested, current_id, course_data,
                   attempt, responses, api_calls, scrape_attempts, courses,
                   locations, tees, holes, now, session_gets, fetched_ids,
                   not_found_run>>
    /\ UNCHANGED environment

\* "Reset consecutive 404s": update_scrape_metadata(last_scraped_id, 0)
update_found ==
    /\ pc = "found"
    /\ consecutive_404s' = 0
    /\ scrape_metadata' = [scrape_metadata EXCEPT
            !.last_scraped_id = current_id, !.consecutive_404s = 0]
    /\ pc' = "next"
    /\ UNCHANGED <<exit_code, shutdown_requested, current_id, course_data,
                   attempt, responses, api_calls, scrape_attempts, courses,
                   locations, tees, holes, now, session_gets, fetched_ids,
                   not_found_run>>
    /\ UNCHANGED environment

\* The not-found branch without its record_scrape_attempt call.
record_404_not_written ==
    /\ pc = "fetched"
    /\ ~truthy(course_data)
    /\ pc' = "missed"
    /\ UNCHANGED <<exit_code, shutdown_requested, memory, tables, now,
                   session_gets, fetched_ids, not_found_run>>
    /\ UNCHANGED environment

\* "Got 404 or error": record_scrape_attempt(current_id, 404, False)
record_404 ==
    /\ pc = "fetched"
    /\ ~truthy(course_data)
    /\ scrape_attempts' = record_scrape_attempt(current_id, 404, FALSE)
    /\ pc' = "missed"
    /\ UNCHANGED <<exit_code, shutdown_requested, memory, scrape_metadata,
                   api_calls, courses, locations, tees, holes, now,
                   session_gets, fetched_ids, not_found_run>>
    /\ UNCHANGED environment

\* consecutive_404s += 1; update_scrape_metadata(last_scraped_id, consecutive_404s)
update_404 ==
    /\ pc = "missed"
    /\ consecutive_404s' = consecutive_404s + 1
    /\ scrape_metadata' = [scrape_metadata EXCEPT
            !.last_scraped_id = current_id,
            !.consecutive_404s = consecutive_404s + 1]
    /\ pc' = "next"
    /\ UNCHANGED <<exit_code, shutdown_requested, current_id, course_data,
                   attempt, responses, api_calls, scrape_attempts, courses,
                   locations, tees, holes, now, session_gets, fetched_ids,
                   not_found_run>>
    /\ UNCHANGED environment

\* A step to the next ID that passes over one.
next_id_skips_one ==
    /\ pc = "next"
    /\ current_id' = current_id + 2
    /\ now' = now + REQUEST_DELAY_TICKS
    /\ api_calls' = IF current_id' % 100 = 0
                    THEN cleanup_old_api_calls(api_calls, now')
                    ELSE api_calls
    /\ course_data' = None
    /\ responses' = <<>>
    /\ pc' = "while"
    /\ UNCHANGED <<exit_code, shutdown_requested, consecutive_404s, attempt,
                   scrape_metadata, scrape_attempts, courses, locations, tees,
                   holes, session_gets, fetched_ids, not_found_run>>
    /\ UNCHANGED environment

\* "Move to next ID", the delay between requests, the periodic cleanup.
next_id ==
    /\ pc = "next"
    /\ current_id' = current_id + 1
    /\ now' = now + REQUEST_DELAY_TICKS
    /\ api_calls' = IF current_id' % 100 = 0
                    THEN cleanup_old_api_calls(api_calls, now')
                    ELSE api_calls
    /\ course_data' = None
    /\ responses' = <<>>
    /\ pc' = "while"
    /\ UNCHANGED <<exit_code, shutdown_requested, consecutive_404s, attempt,
                   scrape_metadata, scrape_attempts, courses, locations, tees,
                   holes, session_gets, fetched_ids, not_found_run>>
    /\ UNCHANGED environment

\* ------------------------------------------------------- specification

\* The steps of the program itself.
Engine ==
    \/ main_check \/ scrape
    \/ skip_attempted \/ rate_limit_gate \/ scrape_complete
    \/ fetch_200 \/ fetch_404 \/ fetch_401 \/ fetch_429 \/ fetch_other
    \/ fetch_exception \/ main_except
    \/ save_course \/ save_course_raises \/ record_saved \/ record_save_failed
    \/ update_found \/ record_404 \/ update_404 \/ next_id

Next ==
    \/ main \/ main_check \/ scrape
    \/ skip_attempted \/ rate_limit_gate \/ scrape_complete
    \/ fetch_200 \/ fetch_404 \/ fetch_401 \/ fetch_429 \/ fetch_other
    \/ fetch_exception \/ main_except
    \/ save_course \/ save_course_raises \/ record_saved \/ record_save_failed
    \/ update_found \/ record_404 \/ update_404 \/ next_id
    \/ signal_handler \/ kill

Spec == Init /\ [][Next]_vars

\* The process keeps running when it can, it is started again after it has
\* stopped, and it is killed only finitely often.
LiveSpec ==
    /\ Spec
    /\ WF_vars(main)
    /\ WF_vars(Engine)
    /\ <>[][~kill]_vars

\* --------------------------------------------------- scripted remotes

\* One answer of the remote.
Answer(status, body) == [status |-> status, body |-> body]

\* IDs 1, 2, 3 answer 200, 200, 404; ID 4 answers 429 once and then 200.
ScenarioThrottledOnce ==
    <<Answer(200, "ok"), Answer(200, "ok"), Answer(404, None),
      Answer(429, None), Answer(200, "ok")>>

\* The remotes the engine is run against: the one above; one that fails in
\* every other way (a 5xx, a network fault, a 403, a body save_course rejects,
\* a 401); one that has no course at all.
Scripts ==
    {ScenarioThrottledOnce,
     <<Answer(500, None), Answer(RequestException, None), Answer(403, None),
       Answer(200, "bad"), Answer(401, None)>>,
     <<Answer(200, "empty"), Answer(404, None), Answer(404, None)>>}

\* An empty store, the default quota, one of the scripted remotes.
ScenarioInit ==
    /\ pc = "stopped"
    /\ exit_code = Running
    /\ shutdown_requested = FALSE
    /\ current_id = 0
    /\ consecutive_404s = 0
    /\ course_data = None
    /\ attempt = 0
    /\ responses = <<>>
    /\ scrape_metadata = InitialMetadata
    /\ api_calls = <<>>
    /\ scrape_attempts = [i \in Ids |-> NoRow]
    /\ courses = {}
    /\ locations = {}
    /\ tees = <<>>
    /\ holes = <<>>
    /\ now = 0
    /\ session_gets = 0
    /\ fetched_ids = {}
    /\ not_found_run = 0
    /\ script \in Scripts
    /\ max_calls_per_day = DEFAULT_MAX_CALLS_PER_DAY

ScenarioSpec == ScenarioInit /\ [][Next]_vars

\* ------------------------------------------- the api_calls ledger alone

\* The ledger functions of database.py applied to a ledger of up to MaxLedger
\* records, at clock values up to MaxTicks ticks past a multiple of the
\* window length, MaxWindows of them at most.
MaxLedger == 2
MaxTicks == 2
MaxWindows == 2

\* No process has run: an empty store, the clock at some tick.
LedgerInit ==
    /\ pc = "stopped"
    /\ exit_code = Running
    /\ shutdown_requested = FALSE
    /\ current_id = 0
    /\ consecutive_404s = 0
    /\ course_data = None
    /\ attempt = 0
    /\ responses = <<>>
    /\ scrape_metadata = InitialMetadata
    /\ api_calls = <<>>
    /\ scrape_attempts = [i \in Ids |-> NoRow]
    /\ courses = {}
    /\ locations = {}
    /\ tees = <<>>
    /\ holes = <<>>
    /\ now \in 0..MaxTicks
    /\ session_gets = 0
    /\ fetched_ids = {}
    /\ not_found_run = 0
    /\ script = <<>>
    /\ max_calls_per_day = MAX_CALLS_PER_DAY

\* Everything but the ledger and the clock.
not_ledger ==
    <<pc, exit_code, shutdown_requested, memory, scrape_metadata,
      scrape_attempts, courses, locations, tees, holes, session_gets,
      fetched_ids, not_found_run, environment>>

\* db.record_api_call()
ledger_record ==
    /\ Len(api_calls) < MaxLedger
    /\ api_calls' = record_api_call(api_calls, now)
    /\ UNCHANGED <<now, not_ledger>>

\* db.cleanup_old_api_calls()
ledger_cleanup ==
    /\ api_calls' = cleanup_old_api_calls(api_calls, now)
    /\ UNCHANGED <<now, not_ledger>>

\* Time passes: a tick, or the window length less a tick, or the window
\* length.
ledger_sleep ==
    /\ \E d \in {1, timedelta_hours(RATE_LIMIT_WINDOW_HOURS) - 1,
                 timedelta_hours(RATE_LIMIT_WINDOW_HOURS)} :
            /\ now' = now + d
            /\ now' % timedelta_hours(RATE_LIMIT_WINDOW_HOURS) <= MaxTicks
            /\ now' \div timedelta_hours(RATE_LIMIT_WINDOW_HOURS) <= MaxWindows
    /\ UNCHANGED <<api_calls, not_ledger>>

\* The time between the two clock reads of wait_for_rate_limit_window: none,
\* or a tick.
Lags == {0, 1}

\* scraper.wait_for_rate_limit_window() and the purge that follows it.
ledger_wait ==
    /\ \E lag \in Lags : now' = wait_for_rate_limit_window(api_calls, now, lag)
    /\ now' % timedelta_hours(RATE_LIMIT_WINDOW_HOURS) <= MaxTicks + Seconds(60)
    /\ now' \div timedelta_hours(RATE_LIMIT_WINDOW_HOURS) <= MaxWindows
    /\ api_calls' = cleanup_old_api_calls(api_calls, now')
    /\ UNCHANGED not_ledger

LedgerNext == ledger_record \/ ledger_cleanup \/ ledger_sleep \/ ledger_wait

LedgerSpec == LedgerInit /\ [][LedgerNext]_vars

\* ------------------------------------------------------------- claims

Last(seq) == seq[Len(seq)]

\* The session.get calls of this fetch_course that ended in a transient error.
TransientErrors(seq) ==
    Cardinality({i \in 1..Len(seq) :
                    seq[i] \in OtherStatuses \cup {RequestException}})

\* A step that issues one session.get.
IsGet == session_gets' = session_gets + 1

\* C1: immediately after fetch_course returns or raises, the number of
\* api_calls records inside the trailing window is at most MAX_CALLS_PER_DAY.
C1_QuotaInvariant ==
    pc \in {"fetched", "raised"} =>
        get_api_calls_in_window(api_calls, now) <= MAX_CALLS_PER_DAY

\* C2: fetch_course never runs for an ID that has a scrape_attempts row, a run
\* begins scanning at last_scraped_id + 1, and every ID it scans or fetches
\* lies above the persisted last_scraped_id.
C2_IdempotentResume ==
    /\ [](pc = "fetch" => scrape_attempts[current_id] = NoRow)
    /\ [](pc \in {"while", "fetch"} =>
            current_id > scrape_metadata.last_scraped_id)
    /\ [][(pc = "scrape" /\ pc' = "while") =>
            current_id' = scrape_metadata.last_scraped_id + 1]_vars

\* A restarted run has skipped an ID that had a row but was not yet covered by
\* last_scraped_id, and fetches the ID after it.
C2_Witness ==
    /\ pc = "fetch"
    /\ current_id > scrape_metadata.last_scraped_id + 1
    /\ scrape_attempts[current_id - 1] # NoRow

\* C3: once scraping_complete is true no step changes the metadata row (the
\* flag included), issues a session.get, or writes api_calls, scrape_attempts
\* or courses.
C3_CompleteIsFinal ==
    [][scrape_metadata.scraping_complete =>
        (/\ scrape_metadata' = scrape_metadata
         /\ session_gets' = session_gets
         /\ api_calls' = api_calls
         /\ scrape_attempts' = scrape_attempts
         /\ courses' = courses)]_vars

\* The engine has been invoked again on a finished crawl.
C3_Witness == pc = "main" /\ scrape_metadata.scraping_complete

\* C4: scraping_complete is true only when the CONSECUTIVE_404_LIMIT most
\* recent fetch_course calls each ended in an HTTP 404 response.
C4_CompleteOnlyAfter404s ==
    scrape_metadata.scraping_complete => not_found_run >= CONSECUTIVE_404_LIMIT

\* C5: once the persisted consecutive_404s has reached the limit no further
\* session.get is issued, and scraping_complete is eventually persisted.
C5_LimitLeadsToComplete ==
    /\ (scrape_metadata.consecutive_404s >= CONSECUTIVE_404_LIMIT)
            ~> scrape_metadata.scraping_complete
    /\ [][scrape_metadata.consecutive_404s >= CONSECUTIVE_404_LIMIT =>
            session_gets' = session_gets]_vars

\* A process started again after one was killed between the write of the
\* counter and the write of the flag.
C5_Witness ==
    /\ pc = "scrape"
    /\ scrape_metadata.consecutive_404s >= CONSECUTIVE_404_LIMIT
    /\ ~scrape_metadata.scraping_complete

\* C6: a session.get answered 401 or 403 makes fetch_course raise at once.
C6_AuthFailureIsFatal ==
    [][(IsGet /\ Last(responses') \in {401, 403}) => pc' = "raised"]_vars

\* C7: while fetch_course runs and while its error propagates, the metadata
\* row, scrape_attempts and courses are not written; when the run aborts on ID
\* i there is no row for i, the crawl is not complete, and i is the first ID
\* above last_scraped_id without a row, the one the next run fetches.
C7_AbortLeavesPositionUntouched ==
    /\ [](pc = "raised" =>
            /\ scrape_attempts[current_id] = NoRow
            /\ ~scrape_metadata.scraping_complete
            /\ scrape_metadata.last_scraped_id < current_id
            /\ \A j \in (scrape_metadata.last_scraped_id + 1)..(current_id - 1) :
                    scrape_attempts[j] # NoRow)
    /\ [][(pc \in {"fetch", "raised"}) =>
            (/\ scrape_metadata' = scrape_metadata
             /\ scrape_attempts' = scrape_attempts
             /\ courses' = courses)]_vars

\* fetch_course has raised on a 401 that followed an earlier call for the ID.
C7_Witness == pc = "raised" /\ Len(responses) >= 2 /\ Last(responses) = 401

\* C8: fetch_course gives up on an ID (returns None without a 200 or a 404)
\* only after RETRY_MAX_ATTEMPTS transient errors, however many 429 responses
\* the ID received.
C8_ThrottleKeepsRetryBudget ==
    (pc = "fetched" /\ Last(responses) \notin {200, 404}) =>
        TransientErrors(responses) = RETRY_MAX_ATTEMPTS

\* C9: every session.get appends exactly one api_calls record.
C9_EveryCallRecorded ==
    [][IsGet => Len(api_calls') = Len(api_calls) + 1]_vars

\* C10: with the shutdown flag set, a step the program takes at the loop
\* boundary leaves the loop and exits with status zero.
C10_ShutdownObserved ==
    [][(shutdown_requested /\ pc = "while" /\ ~kill) =>
            (pc' = "stopped" /\ exit_code' = 0)]_vars
\* C11: no session.get, the retries inside fetch_course included, is issued
\* while check_rate_limit would answer false.
C11_EveryGetIsGated ==
    [][IsGet => check_rate_limit(api_calls, now)]_vars
\* A step of the running program (not its death, not a signal delivery).
ProgramStep == ~kill /\ ~signal_handler

\* C12: when save_course raises for ID i the engine does not abort: its next
\* step records the attempt with status 200 and success false, then
\* last_scraped_id is set to i, and the loop goes on with ID i + 1.
C12_SaveFailureIsSkipped ==
    /\ [][(pc = "save_failed" /\ ProgramStep) =>
            (/\ pc' = "found"
             /\ scrape_attempts'[current_id] =
                    [status_code |-> 200, success |-> FALSE])]_vars
    /\ [][(pc = "found" /\ course_data = "bad" /\ ProgramStep) =>
            (/\ pc' = "next"
             /\ scrape_metadata'.last_scraped_id = current_id)]_vars
    /\ [][(pc = "next" /\ course_data = "bad" /\ ProgramStep) =>
            (pc' = "while" /\ current_id' = current_id + 1)]_vars

\* The engine fetches the ID after one whose save failed.
C12_Witness ==
    /\ pc = "fetch"
    /\ current_id >= 2
    /\ scrape_attempts[current_id - 1] = [status_code |-> 200, success |-> FALSE]
    /\ scrape_metadata.last_scraped_id = current_id - 1
\* C14: no step lowers the persisted last_scraped_id, and each write of it by
\* the engine (the metadata update that closes an iteration) stores a value
\* strictly greater than the one it replaces.
C14_CursorIsMonotone ==
    /\ [][scrape_metadata'.last_scraped_id >= scrape_metadata.last_scraped_id]_vars
    /\ [][(pc \in {"found", "missed"} /\ pc' = "next") =>
            scrape_metadata'.last_scraped_id > scrape_metadata.last_scraped_id]_vars

\* A restarted run has skipped an attempted ID and moves the cursor by two.
C14_Witness ==
    /\ pc = "found"
    /\ scrape_metadata.last_scraped_id >= 1
    /\ current_id > scrape_metadata.last_scraped_id + 1
C17_CursorHasItsRow ==
    scrape_metadata.last_scraped_id > 0 =>
        scrape_attempts[scrape_metadata.last_scraped_id] # NoRow

\* The process was killed right after the engine had written last_scraped_id.
C17_Witness ==
    /\ pc = "stopped"
    /\ exit_code = 137
    /\ scrape_metadata.last_scraped_id >= 2
    /\ scrape_attempts[scrape_metadata.last_scraped_id] # NoRow
\* C18: at most one ID that a session.get was issued for has no scrape_attempts
\* row, so a run that follows an abrupt termination finds at most one fetched
\* ID without a row; and a session.get is issued only for an ID without a
\* row, so that ID is the only one fetched again.
C18_AtMostOneRefetch ==
    /\ [](Cardinality({j \in fetched_ids : scrape_attempts[j] = NoRow}) <= 1)
    /\ [][IsGet => scrape_attempts[current_id] = NoRow]_vars

\* A run fetches again the ID a killed run had fetched without persisting its
\* row; the other fetched ID has its row and was skipped.
C18_Witness ==
    /\ pc = "fetched"
    /\ Len(responses) = 1
    /\ session_gets = 3
    /\ fetched_ids = {current_id, current_id - 1}
    /\ scrape_attempts[current_id - 1] # NoRow
    /\ scrape_metadata.last_scraped_id < current_id - 1
\* C13: a save_course that raises, after any number of its statements, leaves
\* courses, locations, tees, holes and total_courses_scraped as they were
\* before the call, and the attempt is then recorded with success false.
C13_SaveIsAtomic ==
    /\ [][(pc = "fetched" /\ pc' = "save_failed") =>
            (/\ courses' = courses
             /\ locations' = locations
             /\ tees' = tees
             /\ holes' = holes
             /\ scrape_metadata'.total_courses_scraped =
                    scrape_metadata.total_courses_scraped)]_vars
    /\ []((pc = "found" /\ course_data = "bad") =>
            ~scrape_attempts[current_id].success)

\* The failed save of one ID is recorded while an earlier save is in the
\* store, untouched.
C13_Witness ==
    /\ pc = "found"
    /\ course_data = "bad"
    /\ scrape_attempts[current_id] = [status_code |-> 200, success |-> FALSE]
    /\ courses = {current_id - 1}
    /\ locations = courses
    /\ tees = <<current_id - 1>>
    /\ holes = <<1>>
    /\ scrape_metadata.total_courses_scraped = 1
\* The window length, in ticks.
Window == timedelta_hours(RATE_LIMIT_WINDOW_HOURS)

\* The clock values a record written at t0 is probed at: the current one and
\* the ones around the end of its window.
Probes(t0) == {now} \cup {t0 + Window + d : d \in (0 - 2)..2} \cup {t0}

\* C19: a record written at t0 is counted by get_api_calls_in_window at every
\* time n with n - window < t0, and at no time n >= t0 + window.
C19_WindowEviction ==
    \A i \in 1..Len(api_calls) :
        LET t0 == fromisoformat(api_calls[i])
        IN  \A n \in Probes(t0) :
                /\ n - Window < t0 =>
                        get_api_calls_in_window(<<api_calls[i]>>, n) = 1
                /\ n >= t0 + Window =>
                        get_api_calls_in_window(<<api_calls[i]>>, n) = 0

\* The ledger holds a record whose window ends at this very tick, and one
\* written half a second after it that is still inside.
C19_Witness ==
    /\ Len(api_calls) = 2
    /\ fromisoformat(api_calls[1]) + Window = now
    /\ fromisoformat(api_calls[2]) + Window = now + 1
    /\ get_api_calls_in_window(api_calls, now) = 1
\* C20: cleanup_old_api_calls at time now removes exactly the records with
\* timestamp <= now - window, and leaves the answers of
\* get_api_calls_in_window, get_oldest_api_call_in_window and check_rate_limit
\* at that time unchanged.
C20_PurgeIsInvisible ==
    LET Kept(r) == ~(fromisoformat(r) <= now - Window)
        purged == cleanup_old_api_calls(api_calls, now)
    IN  /\ purged = SelectSeq(api_calls, Kept)
        /\ get_api_calls_in_window(purged, now) =
                get_api_calls_in_window(api_calls, now)
        /\ get_oldest_api_call_in_window(purged, now) =
                get_oldest_api_call_in_window(api_calls, now)
        /\ check_rate_limit(purged, now) = check_rate_limit(api_calls, now)

\* The ledger holds a record older than the window and one inside it: the
\* purge removes the first and keeps the second.
C20_Witness ==
    /\ Len(api_calls) = 2
    /\ fromisoformat(api_calls[1]) < now - Window
    /\ fromisoformat(api_calls[2]) > now - Window
    /\ cleanup_old_api_calls(api_calls, now) = <<api_calls[2]>>
\* C16: against the remote of ScenarioThrottledOnce, from an empty store, when
\* ID 4 has been processed: last_scraped_id = 4, consecutive_404s = 0,
\* total_courses_scraped = 3, four scrape_attempts rows, five api_calls
\* records.
C16_ThrottledOnceScenario ==
    (script = ScenarioThrottledOnce /\ pc = "next" /\ current_id = 4) =>
        /\ scrape_metadata.last_scraped_id = 4
        /\ scrape_metadata.consecutive_404s = 0
        /\ scrape_metadata.total_courses_scraped = 3
        /\ Cardinality({i \in Ids : scrape_attempts[i] # NoRow}) = 4
        /\ Len(api_calls) = 5

\* ID 4 has been processed in that scenario, after a 429 and a 200.
C16_Witness ==
    /\ script = ScenarioThrottledOnce
    /\ pc = "next"
    /\ current_id = 4
    /\ responses = <<429, 200>>
    /\ session_gets = 5
Max(a, b) == IF a > b THEN a ELSE b

\* C21: wait_for_rate_limit_window, entered with a record in the window,
\* blocks from its clock read for max(0, oldest + window - clock) plus one
\* second, after which the oldest record is outside the window; entered with
\* no record in the window it blocks for 60 seconds.
C21_WaitDuration ==
    \A lag \in Lags :
        LET oldest == get_oldest_api_call_in_window(api_calls, now)
            clock == now + lag
            return == wait_for_rate_limit_window(api_calls, now, lag)
        IN  IF oldest # NoneInt
            THEN /\ return - clock =
                        Max(0, oldest + Window - clock) + Seconds(1)
                 /\ return >= oldest + Window
            ELSE return - now = Seconds(60)
\* C22: within one fetch_course the sleep that follows the n-th transient
\* error is RETRY_DELAY_SECONDS * n when a retry follows, whatever number of
\* 429 responses came in between, and none when no retry follows.
C22_LinearBackoff ==
    [][(IsGet /\ Last(responses') \in OtherStatuses \cup {RequestException}) =>
            IF pc' = "fetch"
            THEN now' - now =
                    Seconds(RETRY_DELAY_SECONDS * TransientErrors(responses'))
            ELSE now' = now]_vars
\* C23: the step the loop takes at an ID that has a scrape_attempts row only
\* increments current_id: the clock does not move (no wait, no sleep), no
\* session.get is issued, and api_calls, scrape_attempts and the metadata row
\* are unchanged.
C23_SkipOnlyMovesCursor ==
    [][(/\ pc = "while"
        /\ consecutive_404s < CONSECUTIVE_404_LIMIT
        /\ current_id \in Ids
        /\ scrape_attempts[current_id] # NoRow
        /\ ProgramStep) =>
            (/\ current_id' = current_id + 1
             /\ pc' = "while"
             /\ now' = now
             /\ session_gets' = session_gets
             /\ api_calls' = api_calls
             /\ scrape_attempts' = scrape_attempts
             /\ scrape_metadata' = scrape_metadata
             /\ consecutive_404s' = consecutive_404s)]_vars

\* The loop stands behind an ID it has skipped: the cursor in memory is past
\* it, the persisted one is not.
C23_Witness ==
    /\ pc = "while"
    /\ current_id > scrape_metadata.last_scraped_id + 1
    /\ scrape_attempts[current_id - 1] # NoRow
    /\ session_gets >= 1
\* The IDs with a scrape_attempts row.
Attempted == {i \in Ids : scrape_attempts[i] # NoRow}

\* The number of most recently fetched IDs recorded as absent (404) since the
\* last one recorded as found (200); IDs are fetched in increasing order.
TrailingMisses ==
    Cardinality({i \in Attempted :
        \A j \in Attempted : j >= i => scrape_attempts[j].status_code = 404})

\* C24: whenever the engine is about to fetch an ID, the persisted
\* consecutive_404s equals the number of most recently fetched IDs with
\* absent outcome since the last found outcome; it never exceeds
\* CONSECUTIVE_404_LIMIT.
C24_MissCounter ==
    /\ pc = "fetch" => scrape_metadata.consecutive_404s = TrailingMisses
    /\ scrape_metadata.consecutive_404s <= CONSECUTIVE_404_LIMIT
\* C25: total_courses_scraped equals the number of IDs with a row in the
\* courses table.
C25_SavedCountMatchesRows ==
    scrape_metadata.total_courses_scraped = Cardinality(courses)
\* C26: every ID from 1 up to the persisted last_scraped_id has a
\* scrape_attempts row; the table keeps one row per ID, and a step that
\* records an attempt writes the row of the current ID only.
C26_NoGaps ==
    /\ [](\A i \in 1..scrape_metadata.last_scraped_id :
            scrape_attempts[i] # NoRow)
    /\ [][/\ DOMAIN scrape_attempts' = Ids
          /\ \A i \in Ids : scrape_attempts'[i] # scrape_attempts[i] =>
                                i = current_id]_vars

\* The cursor is about to move over an ID a killed run had recorded: the
\* current ID is two above last_scraped_id and every ID up to it has its row.
C26_Witness ==
    /\ pc = "missed"
    /\ current_id = scrape_metadata.last_scraped_id + 2
    /\ \A i \in 1..current_id : scrape_attempts[i] # NoRow
====
